---- MODULE Spec2Model ----
(***************************************************************************)
(* A model of jswu18/learning-keras:                                       *)
(*   - the pair samplers of mnist_shared_vision_model.py (balanced) and    *)
(*     keras_shared_vision_model.py (unbalanced),                          *)
(*   - the sequence windower, the autoregressive sampler and the           *)
(*     interactive prompt of nietzsche_lstm_text_generation.py.            *)
(* numpy arrays are sequences (0-based indices of the code are kept as     *)
(* values, positions in a TLA+ sequence are index+1); python strings are   *)
(* sequences of one-character strings.                                     *)
(***************************************************************************)
EXTENDS Integers, Sequences, FiniteSets, TLC

VARIABLES
    \* ---- pair samplers ----
    variant,        \* which get_img_pairs_and_labels ran: "none", "mnist", "keras"
    labels,         \* the source label vector (y_train / y_test), one per image
    desired_size,   \* desired_size (mnist) / num_img (keras): pairs asked for
    digit_a_idx,    \* np.random.choice draws for the left image
    digit_b_idx,    \* np.random.choice draws for the right image
    data,           \* the dictionary returned by get_img_pairs_and_labels
    sv_status       \* "idle", "returned", "ValueError", "IndexError"

VARIABLES
    \* ---- TextGeneration object (nietzsche_lstm_text_generation.py) ----
    tg_status,           \* "unbuilt", "built", "ValueError" (np.zeros refused the shape)
    text,                \* self._text
    sentence_char_len,   \* self._sentence_char_len
    step,                \* the step argument of __init__
    num_chars,           \* self._num_chars
    indices_char_dict,   \* self._indices_char_dict
    char_indices_dict,   \* self._char_indices_dict
    sentences,           \* self._sentences
    next_chars,          \* self._next_chars
    loop_log,            \* (i, sentence_string, next_char_string) of each loop iteration
    char_index_builds    \* runs of _generate_char_index on this object so far

VARIABLES
    \* ---- generate_text: arguments, locals and what it wrote ----
    gen_pc,                \* "idle", "loop", "returned", "KeyError", "IndexError"
    call_seed,             \* the raw_seed argument as the caller passed it (None or a string)
    raw_seed,              \* local raw_seed (defaulted, lower-cased)
    seed,                  \* local seed
    num_char_to_generate,  \* argument num_char_to_generate
    diversity_idx,         \* position in [0.2, 0.5, 1.0, 1.2] of the current run, from 1
    gen_i,                 \* iterations of the inner loop done in the current run
    sentence,              \* local sentence: the rolling window
    generated,             \* local generated
    out,                   \* what the current call has written to sys.stdout, line by line
    predict_calls,         \* calls of model.predict made by the current call
    gen_calls              \* calls of generate_text made so far

VARIABLES
    \* ---- prompt() ----
    prompt_pc,        \* "not_called", "ask_seed", "ask_count", "in_generate", "exited", "raised"
    prompt_raw_seed,  \* local raw_seed of prompt (None or a string)
    prompt_num,       \* local num_char_to_generate of prompt (None or an int)
    last_input,       \* the line input() returned last (None before the first)
    inputs_read       \* lines read so far

VARIABLES
    \* ---- train_model() and its epoch-end callback ----
    train_pc,             \* "idle", "fitting", "in_generate_text", "returned", "TypeError", "ValueError"
    print_callback_flag,  \* argument print_callback_flag
    epoch,                \* epochs fit has completed
    epoch_end_calls,      \* calls of _on_epoch_end so far
    epoch_sentence,       \* local sentence of the last _on_epoch_end (None before)
    saved_epochs          \* epochs after which save_model was called

sv_vars == <<variant, labels, desired_size, digit_a_idx, digit_b_idx, data, sv_status>>

tg_vars == <<tg_status, text, sentence_char_len, step, num_chars, indices_char_dict,
             char_indices_dict, sentences, next_chars, loop_log, char_index_builds>>

train_vars == <<train_pc, print_callback_flag, epoch, epoch_end_calls, epoch_sentence,
                saved_epochs>>

gen_vars == <<gen_pc, call_seed, raw_seed, seed, num_char_to_generate, diversity_idx,
              gen_i, sentence, generated, out, predict_calls, gen_calls>>

prompt_vars == <<prompt_pc, prompt_raw_seed, prompt_num, last_input, inputs_read>>

vars == <<sv_vars, tg_vars, train_vars, gen_vars, prompt_vars>>

(***************************************************************************)
(* Bounds of the model.                                                    *)
(***************************************************************************)
MaxImgs == 3          \* source collections hold 1..MaxImgs images
MaxDesired == 4       \* desired_size ranges over 0..MaxDesired
MaxText == 5          \* corpora of the windower hold 1..MaxText characters
MaxWindow == 3        \* sentence_char_len ranges over 1..MaxWindow
MaxStep == 3          \* step ranges over 1..MaxStep
MaxGen == 2           \* direct calls of generate_text ask for 0..MaxGen characters
MaxInputs == 3        \* a prompt session reads at most MaxInputs lines
MaxBuilds == 2        \* _generate_char_index runs at most MaxBuilds times on an object

(***************************************************************************)
(* Program constants.                                                      *)
(***************************************************************************)
OVERSAMPLE == 10      \* desired_size*10 draws
NUM_CLASSES == 10     \* width of the one-hot digit label vectors
SEED_LEN == 40        \* the literal 40 of generate_text and prompt
DEFAULT_STEP == 3     \* default of __init__'s step
NUM_DIVERSITIES == 4  \* len([0.2, 0.5, 1.0, 1.2])
EPOCHS == 60          \* epochs=60 of train_model
DEFAULT_NUM_CHARS == 400  \* default of generate_text's num_char_to_generate
SAVE_EVERY == 5       \* epoch%5==0 of _on_epoch_end

\* the digit classes source labels are drawn from (a sample of 0..9)
LabelChoices == {3, 7}

Min(a, b) == IF a < b THEN a ELSE b

\* int(x/2) for x >= 0
half(x) == x \div 2

(***************************************************************************)
(* numpy helpers, as the code uses them.                                   *)
(***************************************************************************)
\* np.random.choice(a, size) draws from np.arange(a) = {0, ..., a-1}
ChoiceRange(a) == 0 .. (a - 1)

\* the first argument both samplers hand to np.random.choice
ChoiceArg(num_img) == num_img - 1

\* np.random.choice(a, size) raises ValueError when a <= 0 and size > 0
ChoiceRaises(a, size) == a <= 0 /\ size > 0

\* np.take(arr, idx, axis=0) / arr[idx]
Take(arr, idx) == [i \in 1..Len(idx) |-> arr[idx[i] + 1]]

\* (a == b).astype(int)
EqAsInt(a, b) == [i \in 1..Len(a) |-> IF a[i] = b[i] THEN 1 ELSE 0]

\* np.arange(n)
Arange(n) == [i \in 1..n |-> i - 1]

\* np.nonzero(v)[0]: the 0-based positions of the non-zero entries, ascending
Nonzero(v) == SelectSeq(Arange(Len(v)), LAMBDA i : v[i + 1] # 0)

\* mask = np.ones(len(v)); mask[idx] = 0
MaskOut(n, idx) ==
    [i \in 1..n |-> IF \E k \in 1..Len(idx) : idx[k] = i - 1 THEN 0 ELSE 1]

\* s[0:n]
Prefix(s, n) == SubSeq(s, 1, Min(n, Len(s)))

\* one row of a one-hot matrix of width NUM_CLASSES with column c set
OneHotRow(c) == [j \in 0..(NUM_CLASSES - 1) |-> IF j = c THEN 1 ELSE 0]

\* m[np.arange(rows), cols] = 1 : the two index arrays must broadcast together
BroadcastOk(rows, cols) == rows = Len(cols) \/ rows = 1 \/ Len(cols) = 1

\* m = np.zeros((rows, 10)); m[np.arange(rows), cols] = 1, when it broadcasts
OneHotAssign(rows, cols) ==
    [r \in 1..rows |-> OneHotRow(IF Len(cols) = 1 THEN cols[1] ELSE cols[r])]

EmptyData ==
    [labels |-> <<>>, digit_a |-> <<>>, digit_b |-> <<>>,
     digit_a_labels |-> <<>>, digit_b_labels |-> <<>>]

(***************************************************************************)
(* The random draws: a pool of `size` index pairs.  The pools enumerated   *)
(* are those whose first draw and second draw are arbitrary and whose      *)
(* remaining draws repeat one arbitrary value.                             *)
(***************************************************************************)
Draws(range, size) ==
    IF size = 0 \/ range = {} THEN { <<>> }
    ELSE { [i \in 1..size |-> IF i = 1 THEN h ELSE IF i = 2 THEN s ELSE f] :
             h \in range, s \in range, f \in range }

LabelVectors == UNION { [1..n -> LabelChoices] : n \in 1..MaxImgs }

(***************************************************************************)
(* mnist_shared_vision_model.py: get_img_pairs_and_labels(imgs, labels,    *)
(* desired_size), the balanced sampler.                                    *)
(***************************************************************************)
BalancedIdxFalse(lab) == Nonzero(lab)

BalancedIdxTrue(lab) == Nonzero(MaskOut(Len(lab), BalancedIdxFalse(lab)))

\* idx_true concatenated with itself
BalancedIdxImages_twice(lab, D) ==
    Prefix(BalancedIdxTrue(lab), half(D)) \o Prefix(BalancedIdxTrue(lab), half(D))

BalancedIdxImages(lab, D) ==
    Prefix(BalancedIdxTrue(lab), half(D)) \o Prefix(BalancedIdxFalse(lab), half(D))

BalancedData(y, a_idx, b_idx, D) ==
    LET labels_a == Take(y, a_idx)
        labels_b == Take(y, b_idx)
        lab == EqAsInt(labels_a, labels_b)
        idx_images == BalancedIdxImages(lab, D)
    IN  [labels |-> Take(lab, idx_images),
         digit_a |-> Take(a_idx, idx_images),
         digit_b |-> Take(b_idx, idx_images),
         digit_a_labels |-> OneHotAssign(half(D) * 2, Take(labels_a, idx_images)),
         digit_b_labels |-> OneHotAssign(half(D) * 2, Take(labels_b, idx_images))]

BalancedBroadcasts(y, a_idx, b_idx, D) ==
    LET lab == EqAsInt(Take(y, a_idx), Take(y, b_idx))
    IN  BroadcastOk(half(D) * 2, BalancedIdxImages(lab, D))

GetImgPairsBalanced ==
    \E y \in LabelVectors, D \in 0..MaxDesired :
        LET num_img == Len(y)
            size == D * OVERSAMPLE
        IN  /\ sv_status = "idle"
            /\ UNCHANGED <<tg_vars, train_vars, gen_vars, prompt_vars>>
            /\ variant' = "mnist"
            /\ labels' = y
            /\ desired_size' = D
            /\ IF ChoiceRaises(ChoiceArg(num_img), size)
               THEN /\ sv_status' = "ValueError"
                    /\ digit_a_idx' = <<>>
                    /\ digit_b_idx' = <<>>
                    /\ data' = EmptyData
               ELSE \E a_idx \in Draws(ChoiceRange(ChoiceArg(num_img)), size),
                       b_idx \in Draws(ChoiceRange(ChoiceArg(num_img)), size) :
                        /\ digit_a_idx' = a_idx
                        /\ digit_b_idx' = b_idx
                        /\ IF BalancedBroadcasts(y, a_idx, b_idx, D)
                           THEN /\ sv_status' = "returned"
                                /\ data' = BalancedData(y, a_idx, b_idx, D)
                           ELSE /\ sv_status' = "IndexError"
                                /\ data' = EmptyData

(***************************************************************************)
(* keras_shared_vision_model.py: get_img_pairs_and_labels(imgs, labels),   *)
(* the unbalanced sampler; it draws num_img pairs.                         *)
(***************************************************************************)
UnbalancedData(y, a_idx, b_idx) ==
    [labels |-> EqAsInt(Take(y, a_idx), Take(y, b_idx)),
     digit_a |-> a_idx,
     digit_b |-> b_idx,
     digit_a_labels |-> <<>>,
     digit_b_labels |-> <<>>]

GetImgPairsUnbalanced ==
    \E y \in LabelVectors :
        LET num_img == Len(y)
        IN  /\ sv_status = "idle"
            /\ UNCHANGED <<tg_vars, train_vars, gen_vars, prompt_vars>>
            /\ variant' = "keras"
            /\ labels' = y
            /\ desired_size' = num_img
            /\ IF ChoiceRaises(ChoiceArg(num_img), num_img)
               THEN /\ sv_status' = "ValueError"
                    /\ digit_a_idx' = <<>>
                    /\ digit_b_idx' = <<>>
                    /\ data' = EmptyData
               ELSE \E a_idx \in Draws(ChoiceRange(ChoiceArg(num_img)), num_img),
                       b_idx \in Draws(ChoiceRange(ChoiceArg(num_img)), num_img) :
                        /\ digit_a_idx' = a_idx
                        /\ digit_b_idx' = b_idx
                        /\ sv_status' = "returned"
                        /\ data' = UnbalancedData(y, a_idx, b_idx)

(***************************************************************************)
(* Characters and python strings.                                          *)
(***************************************************************************)
\* the characters of the model in code-point order (what sorted() uses)
CodePointOrder ==
    <<" ", "+", "-", "0", "1", "2", "3", "4", "5", "6", "7", "8", "9">> \o
    <<"A", "B", "C", "D", "E", "F", "G", "H", "I", "J", "K", "L", "M", "N", "O", "P", "Q",
      "R", "S", "T", "U", "V", "W", "X", "Y", "Z">> \o
    <<"_">> \o
    <<"a", "b", "c", "d", "e", "f", "g", "h", "i", "j", "k", "l", "m", "n", "o", "p", "q",
      "r", "s", "t", "u", "v", "w", "x", "y", "z">>

Ord(c) == CHOOSE i \in 1..Len(CodePointOrder) : CodePointOrder[i] = c

Upper == <<"A", "B", "C", "D", "E", "F", "G", "H", "I", "J", "K", "L", "M", "N", "O", "P",
           "Q", "R", "S", "T", "U", "V", "W", "X", "Y", "Z">>

\* str.lower() on one character
LowerChar(c) ==
    IF \E i \in 1..Len(Upper) : Upper[i] = c
    THEN CodePointOrder[Ord(c) + 27]
    ELSE c

\* str.lower()
Lower(s) == [i \in 1..Len(s) |-> LowerChar(s[i])]

SeqRange(s) == { s[i] : i \in 1..Len(s) }

\* s[a:b] for 0 <= a
Slice(s, a, b) == SubSeq(s, a + 1, Min(b, Len(s)))

\* int(x) of the quotient n/d, d > 0: truncation toward zero
TruncDiv(n, d) == IF n >= 0 THEN n \div d ELSE -((-n) \div d)

\* list(range(start, stop, step)), step > 0
RECURSIVE PyRange(_, _, _)
PyRange(start, stop, stp) ==
    IF start >= stop THEN <<>> ELSE <<start>> \o PyRange(start + stp, stop, stp)

(***************************************************************************)
(* TextGeneration._load_data: the corpus file is read and lower-cased.     *)
(***************************************************************************)
LoadData(file) == Lower(file)

(***************************************************************************)
(* TextGeneration._generate_char_index                                     *)
(***************************************************************************)
\* sorted(list(set(text)))
RECURSIVE SortedChars(_)
SortedChars(S) ==
    IF S = {} THEN <<>>
    ELSE LET m == CHOOSE c \in S : \A d \in S : Ord(c) <= Ord(d)
         IN  <<m>> \o SortedChars(S \ {m})

\* dict((i, c) for i, c in enumerate(chars))
IndicesCharDict(chars) == [i \in 0..(Len(chars) - 1) |-> chars[i + 1]]

\* dict((c, i) for i, c in enumerate(chars))
CharIndicesDict(chars) ==
    [c \in SeqRange(chars) |-> CHOOSE i \in 0..(Len(chars) - 1) : chars[i + 1] = c]

(***************************************************************************)
(* TextGeneration._generate_training_data                                  *)
(***************************************************************************)
\* vectorize_chars(char_string): one one-hot row per character
vectorize_chars(char_string, cid, nc) ==
    [i \in 1..Len(char_string) |->
        [j \in 0..(nc - 1) |-> j = cid[char_string[i]]]]

\* np.zeros((rows, nc), dtype=np.bool)
ZeroMatrix(rows, nc) == [i \in 1..rows |-> [j \in 0..(nc - 1) |-> FALSE]]

\* int(((text_char_len - self._sentence_char_len)/step)+1)
NumSentences(T, L, stp) == TruncDiv((T - L) + stp, stp)

\* range(0, text_char_len - self._sentence_char_len, step)
WindowStarts_short(T, L, stp) == PyRange(0, T - L - 1, stp)

WindowStarts(T, L, stp) == PyRange(0, T - L, stp)

\* the locals of every loop iteration, in order
TrainingLoop(txt, L, stp) ==
    LET starts == WindowStarts(Len(txt), L, stp)
    IN  [k \in 1..Len(starts) |->
            [i |-> starts[k],
             row |-> starts[k] \div stp,
             sentence_string |-> Slice(txt, starts[k], starts[k] + L),
             next_char_string |-> <<txt[starts[k] + L + 1]>>]]

\* the row of the loop iteration that last wrote row r (0-based), or 0
LastWriter(log, r) ==
    LET W == { k \in 1..Len(log) : log[k].row = r }
    IN  IF W = {} THEN 0 ELSE CHOOSE k \in W : \A j \in W : j <= k

\* sentences after the loop
SentencesArray(log, rows, L, cid, nc) ==
    [r \in 1..rows |->
        IF LastWriter(log, r - 1) = 0 THEN ZeroMatrix(L, nc)
        ELSE vectorize_chars(log[LastWriter(log, r - 1)].sentence_string, cid, nc)]

\* next_chars after the loop
NextCharsArray(log, rows, cid, nc) ==
    [r \in 1..rows |->
        IF LastWriter(log, r - 1) = 0 THEN [j \in 0..(nc - 1) |-> FALSE]
        ELSE vectorize_chars(log[LastWriter(log, r - 1)].next_char_string, cid, nc)[1]]

(***************************************************************************)
(* TextGeneration.__init__(corpus_name, sentence_char_len, step), up to    *)
(* and including _generate_training_data.                                  *)
(***************************************************************************)
Build(file, L, stp) ==
    LET txt == LoadData(file)
        chars == SortedChars(SeqRange(txt))
        nc == Len(chars)
        cid == CharIndicesDict(chars)
        rows == NumSentences(Len(txt), L, stp)
        log == TrainingLoop(txt, L, stp)
    IN  [text |-> txt,
         sentence_char_len |-> L,
         step |-> stp,
         num_chars |-> nc,
         indices_char_dict |-> IndicesCharDict(chars),
         char_indices_dict |-> cid,
         tg_status |-> IF rows < 0 THEN "ValueError" ELSE "built",
         sentences |-> IF rows < 0 THEN <<>> ELSE SentencesArray(log, rows, L, cid, nc),
         next_chars |-> IF rows < 0 THEN <<>> ELSE NextCharsArray(log, rows, cid, nc),
         loop_log |-> IF rows < 0 THEN <<>> ELSE log]

\* the corpus files of the windower runs
SmallCorpora == UNION { [1..n -> {"a", "B"}] : n \in 1..MaxText }

Construct ==
    /\ tg_status = "unbuilt"
    /\ \E file \in SmallCorpora, L \in 1..MaxWindow, stp \in 1..MaxStep :
          LET b == Build(file, L, stp)
          IN  /\ tg_status' = b.tg_status
              /\ text' = b.text
              /\ sentence_char_len' = b.sentence_char_len
              /\ step' = b.step
              /\ num_chars' = b.num_chars
              /\ indices_char_dict' = b.indices_char_dict
              /\ char_indices_dict' = b.char_indices_dict
              /\ sentences' = b.sentences
              /\ next_chars' = b.next_chars
              /\ loop_log' = b.loop_log
              /\ char_index_builds' = 1
    /\ UNCHANGED <<sv_vars, train_vars, gen_vars, prompt_vars>>

\* list(set(text)): the distinct characters in any iteration order
ListsOfSet(S) == { p \in [1..Cardinality(S) -> S] : SeqRange(p) = S }

\* insertion of c into a list sorted by code point
RECURSIVE InsertSorted(_, _)
InsertSorted(c, lst) ==
    IF lst = <<>> THEN <<c>>
    ELSE IF Ord(c) <= Ord(Head(lst)) THEN <<c>> \o lst
    ELSE <<Head(lst)>> \o InsertSorted(c, Tail(lst))

\* the list is used in the order set() iterates it
SortList_asis(lst) == lst

\* sorted(lst)
RECURSIVE SortList(_)
SortList(lst) ==
    IF lst = <<>> THEN <<>> ELSE InsertSorted(Head(lst), SortList(Tail(lst)))

\* _generate_char_index runs again on a constructed object
GenerateCharIndex ==
    /\ tg_status = "built"
    /\ char_index_builds < MaxBuilds
    /\ \E lst \in ListsOfSet(SeqRange(text)) :
          LET chars == SortList(lst)
          IN  /\ num_chars' = Len(chars)
              /\ indices_char_dict' = IndicesCharDict(chars)
              /\ char_indices_dict' = CharIndicesDict(chars)
    /\ char_index_builds' = char_index_builds + 1
    /\ UNCHANGED <<tg_status, text, sentence_char_len, step, sentences, next_chars, loop_log>>
    /\ UNCHANGED <<sv_vars, train_vars, gen_vars, prompt_vars>>

TextInit ==
    /\ tg_status = "unbuilt"
    /\ text = <<>>
    /\ sentence_char_len = 0
    /\ step = 0
    /\ num_chars = 0
    /\ indices_char_dict = <<>>
    /\ char_indices_dict = <<>>
    /\ sentences = <<>>
    /\ next_chars = <<>>
    /\ loop_log = <<>>
    /\ char_index_builds = 0

(***************************************************************************)
(* The corpus and the window lengths of the generation and prompt runs.    *)
(***************************************************************************)
GenCorpus ==
    <<"H", "e", " ", "w", "h", "o", " ", "h", "a", "s", " ", "a", " ", "w", "h", "y", " ",
      "t", "o", " ", "l", "i", "v", "e", " ", "c", "a", "n", " ", "b", "e", "a", "r", " ",
      "a", "l", "m", "o", "s", "t", " ", "a", "n", "y", " ", "h", "o", "w">>

WindowChoices == {SEED_LEN - 1, SEED_LEN, SEED_LEN + 1}

\* the TextGeneration object after __init__
BuiltInit ==
    \E L \in WindowChoices :
        LET b == Build(GenCorpus, L, DEFAULT_STEP)
        IN  /\ tg_status = b.tg_status
            /\ text = b.text
            /\ sentence_char_len = b.sentence_char_len
            /\ step = b.step
            /\ num_chars = b.num_chars
            /\ indices_char_dict = b.indices_char_dict
            /\ char_indices_dict = b.char_indices_dict
            /\ sentences = b.sentences
            /\ next_chars = b.next_chars
            /\ loop_log = b.loop_log
            /\ char_index_builds = 1

(***************************************************************************)
(* TextGeneration.generate_text(raw_seed, num_char_to_generate)            *)
(***************************************************************************)
None == <<>>
Some(x) == <<x>>

\* 'he who has a why to live can bear almost'
DefaultSeed ==
    <<"h", "e", " ", "w", "h", "o", " ", "h", "a", "s", " ", "a", " ", "w", "h", "y", " ",
      "t", "o", " ", "l", "i", "v", "e", " ", "c", "a", "n", " ", "b", "e", "a", "r", " ",
      "a", "l", "m", "o", "s", "t">>

\* a string of n characters: `first`, then "e" repeated
Padded(first, n) == [k \in 1..n |-> IF k = 1 THEN first ELSE "e"]

\* the seeds handed to generate_text and typed at the prompt
SeedInputs ==
    { Padded(c, n) : c \in {"h", "H", "q"},
                     n \in {SEED_LEN - 2, SEED_LEN - 1, SEED_LEN, SEED_LEN + 1, SEED_LEN + 2} }

\* the indices _sample can return: np.argmax of one multinomial draw
SampleChoices(nc) == {0, nc - 1}

\* raw_seed[len(raw_seed)-40:]
LastChars(s, n) == SubSeq(s, Len(s) - n + 1, Len(s))

TooShortLine == [kind |-> "seed_too_short", body |-> <<>>]

\* the three writes that open a diversity run: print('----- diversity:', d),
\* print('----- Generating with seed: "' + raw_seed + '"'), sys.stdout.write(raw_seed)
RunHeader(d, raw) ==
    <<[kind |-> "diversity", body |-> <<d>>],
      [kind |-> "generating_with_seed", body |-> raw],
      [kind |-> "text", body |-> raw]>>

\* the window a diversity run starts from
InitialSentence(sd) == sd

\* sentence = sentence[1:] + next_char
Slide(sent, next_char) == Tail(sent) \o <<next_char>>

\* sys.stdout.write(next_char): the character joins the open line
WriteChar(o, c) == [o EXCEPT ![Len(o)].body = @ \o <<c>>]

\* the seed local of generate_text, or None when the call returns at once
SeedOf(raw) ==
    IF Len(raw) > SEED_LEN THEN Some(LastChars(raw, SEED_LEN))
    ELSE IF Len(raw) < SEED_LEN THEN None
    ELSE Some(raw)

\* filling x_pred = np.zeros((1, L, num_chars)) from the window: the first
\* position that fails decides the exception
EncodeError(sent, L, cid) ==
    LET Bad == { t \in 0..(Len(sent) - 1) : sent[t + 1] \notin DOMAIN cid \/ t >= L }
    IN  IF Bad = {} THEN "none"
        ELSE LET t == CHOOSE x \in Bad : \A y \in Bad : x <= y
             IN  IF sent[t + 1] \notin DOMAIN cid THEN "KeyError" ELSE "IndexError"

\* the entry of generate_text up to the first iteration of the inner loop
EnterGenerateText(arg, M) ==
    LET raw == Lower(IF arg = None THEN DefaultSeed ELSE arg[1])
        sd == SeedOf(raw)
    IN  /\ call_seed' = arg
        /\ num_char_to_generate' = M
        /\ raw_seed' = raw
        /\ gen_calls' = gen_calls + 1
        /\ predict_calls' = 0
        /\ gen_i' = 0
        /\ IF sd = None
           THEN /\ gen_pc' = "returned"
                /\ out' = <<TooShortLine>>
                /\ seed' = <<>>
                /\ sentence' = <<>>
                /\ generated' = <<>>
                /\ diversity_idx' = 0
           ELSE /\ gen_pc' = "loop"
                /\ seed' = sd[1]
                /\ diversity_idx' = 1
                /\ sentence' = InitialSentence(sd[1])
                /\ generated' = InitialSentence(sd[1])
                /\ out' = RunHeader(1, raw)

\* a direct call of generate_text
GenerateText ==
    /\ tg_status = "built"
    /\ gen_pc = "idle"
    /\ prompt_pc = "not_called"
    /\ \E arg \in {None} \cup { Some(sd) : sd \in SeedInputs }, M \in 0..MaxGen :
          EnterGenerateText(arg, M)
    /\ UNCHANGED <<sv_vars, tg_vars, train_vars, prompt_vars>>

\* one iteration of `for i in range(num_char_to_generate)`
GenStep ==
    /\ gen_pc = "loop"
    /\ gen_i < num_char_to_generate
    /\ LET err == EncodeError(sentence, sentence_char_len, char_indices_dict)
       IN  IF err # "none"
           THEN /\ gen_pc' = err
                /\ prompt_pc' = IF prompt_pc = "in_generate" THEN "raised" ELSE prompt_pc
                /\ UNCHANGED <<call_seed, raw_seed, seed, num_char_to_generate,
                               diversity_idx, gen_i, sentence, generated, out,
                               predict_calls, gen_calls>>
           ELSE \E next_index \in SampleChoices(num_chars) :
                   LET next_char == indices_char_dict[next_index]
                   IN  /\ predict_calls' = predict_calls + 1
                       /\ generated' = generated \o <<next_char>>
                       /\ sentence' = Slide(sentence, next_char)
                       /\ out' = WriteChar(out, next_char)
                       /\ gen_i' = gen_i + 1
                       /\ UNCHANGED <<gen_pc, prompt_pc, call_seed, raw_seed, seed,
                                      num_char_to_generate, diversity_idx, gen_calls>>
    /\ UNCHANGED <<sv_vars, tg_vars, train_vars, prompt_raw_seed, prompt_num, last_input, inputs_read>>

\* the inner loop is exhausted: print(), then the next diversity or the return
\* (in a prompt session: raw_seed = None, num_char_to_generate = None, next seed)
GenEndRun ==
    /\ gen_pc = "loop"
    /\ gen_i >= num_char_to_generate
    /\ IF diversity_idx < NUM_DIVERSITIES
       THEN /\ diversity_idx' = diversity_idx + 1
            /\ sentence' = InitialSentence(seed)
            /\ generated' = InitialSentence(seed)
            /\ out' = out \o RunHeader(diversity_idx + 1, raw_seed)
            /\ gen_i' = 0
            /\ UNCHANGED <<gen_pc, prompt_pc, prompt_raw_seed, prompt_num>>
       ELSE /\ gen_pc' = "returned"
            /\ IF prompt_pc = "in_generate"
               THEN /\ prompt_pc' = "ask_seed"
                    /\ prompt_raw_seed' = None
                    /\ prompt_num' = None
               ELSE UNCHANGED <<prompt_pc, prompt_raw_seed, prompt_num>>
            /\ UNCHANGED <<diversity_idx, sentence, generated, out, gen_i>>
    /\ UNCHANGED <<call_seed, raw_seed, seed, num_char_to_generate, predict_calls, gen_calls>>
    /\ UNCHANGED <<sv_vars, tg_vars, train_vars, last_input, inputs_read>>

GenInit ==
    /\ gen_pc = "idle"
    /\ call_seed = None
    /\ raw_seed = <<>>
    /\ seed = <<>>
    /\ num_char_to_generate = 0
    /\ diversity_idx = 0
    /\ gen_i = 0
    /\ sentence = <<>>
    /\ generated = <<>>
    /\ out = <<>>
    /\ predict_calls = 0
    /\ gen_calls = 0

PromptInit ==
    /\ prompt_pc = "not_called"
    /\ prompt_raw_seed = None
    /\ prompt_num = None
    /\ last_input = None
    /\ inputs_read = 0

(***************************************************************************)
(* int(str), as prompt uses it on a line of input.                         *)
(***************************************************************************)
IsDigit(c) == c \in {"0", "1", "2", "3", "4", "5", "6", "7", "8", "9"}

DigitVal(c) == Ord(c) - Ord("0")

\* str.strip() of the blanks at both ends
RECURSIVE Strip(_)
Strip(s) ==
    IF s = <<>> THEN s
    ELSE IF Head(s) = " " THEN Strip(Tail(s))
    ELSE IF s[Len(s)] = " " THEN Strip(SubSeq(s, 1, Len(s) - 1))
    ELSE s

HasSign(s) == s # <<>> /\ Head(s) \in {"+", "-"}

\* the digits of a stripped literal, after its optional sign
Digits(s) == IF HasSign(s) THEN Tail(s) ELSE s

\* digits, single underscores only between two digits
ValidDigits(b) ==
    /\ b # <<>>
    /\ \A k \in 1..Len(b) :
          \/ IsDigit(b[k])
          \/ /\ b[k] = "_"
             /\ 1 < k
             /\ k < Len(b)
             /\ IsDigit(b[k - 1])
             /\ IsDigit(b[k + 1])

\* int(line) does not raise ValueError
ParsesAsInt(line) == ValidDigits(Digits(Strip(line)))

RECURSIVE DigitsValue(_, _)
DigitsValue(b, acc) ==
    IF b = <<>> THEN acc
    ELSE IF Head(b) = "_" THEN DigitsValue(Tail(b), acc)
    ELSE DigitsValue(Tail(b), 10 * acc + DigitVal(Head(b)))

\* int(line), for a line that parses
ParseInt(line) ==
    LET st == Strip(line)
        v == DigitsValue(Digits(st), 0)
    IN  IF HasSign(st) /\ Head(st) = "-" THEN -v ELSE v

(***************************************************************************)
(* TextGeneration.prompt()                                                 *)
(***************************************************************************)
EXIT == <<"e", "x", "i", "t">>

\* lines typed at the prompt that are shorter than a seed
ShortLines ==
    { EXIT,
      <<>>,
      <<"E", "x", "i", "t">>,
      <<"o", "n", "e">>,
      <<"0">>,
      <<"1">>,
      <<"+", "1">>,
      <<"-", "1">>,
      <<" ", "1", " ">>,
      <<"0", "_", "1">>,
      <<"_", "1">> }

\* lines typed at the prompt that are about as long as a seed
LongLines ==
    { Padded(c, n) : c \in {"H", "q"}, n \in {SEED_LEN - 1, SEED_LEN, SEED_LEN + 1} }

InputLines == LongLines \cup ShortLines

\* prompt() is called
PromptCall ==
    /\ tg_status = "built"
    /\ prompt_pc = "not_called"
    /\ gen_pc = "idle"
    /\ prompt_pc' = "ask_seed"
    /\ prompt_raw_seed' = None
    /\ prompt_num' = None
    /\ UNCHANGED <<last_input, inputs_read, sv_vars, tg_vars, train_vars, gen_vars>>

\* what the seed question does with a line: "exit", "retry" or "accept"
SeedOutcome(line) ==
    IF line = EXIT THEN "exit"
    ELSE IF Len(line) < SEED_LEN THEN "retry"
    ELSE "accept"

\* one pass of `while raw_seed is None`: a line is read at the seed question
PromptReadSeed ==
    /\ prompt_pc = "ask_seed"
    /\ inputs_read < MaxInputs
    /\ \E line \in InputLines :
          /\ last_input' = Some(line)
          /\ inputs_read' = inputs_read + 1
          /\ prompt_pc' = CASE SeedOutcome(line) = "exit" -> "exited"
                            [] SeedOutcome(line) = "retry" -> "ask_seed"
                            [] OTHER -> "ask_count"
          /\ prompt_raw_seed' = IF SeedOutcome(line) = "retry" THEN None ELSE Some(line)
    /\ UNCHANGED <<prompt_num, sv_vars, tg_vars, train_vars, gen_vars>>

\* the ValueError of int() escapes the loop
CountOutcome_uncaught(line) ==
    IF line = EXIT THEN "exit"
    ELSE IF ~ParsesAsInt(line) THEN "raise"
    ELSE IF ParseInt(line) < 0 THEN "retry"
    ELSE "generate"

\* what the count question does with a line: "exit", "retry" or "generate"
CountOutcome(line) ==
    IF line = EXIT THEN "exit"
    ELSE IF ~ParsesAsInt(line) THEN "retry"
    ELSE IF ParseInt(line) < 0 THEN "retry"
    ELSE "generate"

\* one pass of `while num_char_to_generate is None`: a line is read at the
\* count question; an accepted count enters generate_text
PromptReadCount ==
    /\ prompt_pc = "ask_count"
    /\ inputs_read < MaxInputs
    /\ \E line \in InputLines :
          /\ last_input' = Some(line)
          /\ inputs_read' = inputs_read + 1
          /\ IF CountOutcome(line) = "generate"
             THEN /\ EnterGenerateText(prompt_raw_seed, ParseInt(line))
                  /\ IF SeedOf(Lower(prompt_raw_seed[1])) = None
                     THEN /\ prompt_pc' = "ask_seed"
                          /\ prompt_raw_seed' = None
                          /\ prompt_num' = None
                     ELSE /\ prompt_pc' = "in_generate"
                          /\ prompt_num' = Some(ParseInt(line))
                          /\ UNCHANGED prompt_raw_seed
             ELSE /\ prompt_pc' = CASE CountOutcome(line) = "exit" -> "exited"
                                    [] CountOutcome(line) = "retry" -> "ask_count"
                                    [] OTHER -> "raised"
                  /\ prompt_num' = None
                  /\ UNCHANGED <<prompt_raw_seed, gen_vars>>
    /\ UNCHANGED <<sv_vars, tg_vars, train_vars>>

(***************************************************************************)
(* TextGeneration.train_model(print_callback_flag) and _on_epoch_end       *)
(***************************************************************************)
\* the parameters generate_text can be given by keyword
GenerateTextParams == {"raw_seed", "num_char_to_generate"}

\* the keyword _on_epoch_end passes its sentence under
EpochEndKeyword == "seed"

\* a call f(kw=value) binds only a parameter of f; otherwise TypeError
KeywordAccepted(kw) == kw \in GenerateTextParams

\* random.randint(a, b): a <= N <= b, ValueError on an empty range
RandInt(a, b) == a..b

\* train_model is called: fit starts its first epoch
TrainModel ==
    /\ tg_status = "built"
    /\ train_pc = "idle"
    /\ gen_pc = "idle"
    /\ prompt_pc = "not_called"
    /\ train_pc' = "fitting"
    /\ print_callback_flag' \in BOOLEAN
    /\ epoch' = 0
    /\ UNCHANGED <<epoch_end_calls, epoch_sentence, saved_epochs>>
    /\ UNCHANGED <<sv_vars, tg_vars, gen_vars, prompt_vars>>

\* fit ends an epoch and runs its callbacks.  With the print callback,
\* _on_epoch_end draws a sentence and calls generate_text(seed=sentence); an
\* exception of the callback leaves fit and train_model.  The save of
\* `if epoch%5==0` and the return follow the call and are reached only
\* when the call returns.
EpochEnd ==
    /\ train_pc = "fitting"
    /\ epoch < EPOCHS
    /\ IF ~print_callback_flag
       THEN /\ epoch' = epoch + 1
            /\ train_pc' = IF epoch + 1 = EPOCHS THEN "returned" ELSE "fitting"
            /\ UNCHANGED <<epoch_end_calls, epoch_sentence, saved_epochs, gen_vars>>
       ELSE /\ epoch_end_calls' = epoch_end_calls + 1
            /\ UNCHANGED <<epoch, saved_epochs>>
            /\ IF RandInt(0, Len(text) - sentence_char_len - 1) = {}
               THEN /\ train_pc' = "ValueError"
                    /\ UNCHANGED <<epoch_sentence, gen_vars>>
               ELSE \E start_index \in RandInt(0, Len(text) - sentence_char_len - 1) :
                       LET sent == Slice(text, start_index, start_index + sentence_char_len)
                       IN  /\ epoch_sentence' = Some(sent)
                           /\ IF KeywordAccepted(EpochEndKeyword)
                              THEN /\ train_pc' = "in_generate_text"
                                   /\ EnterGenerateText(Some(sent), DEFAULT_NUM_CHARS)
                              ELSE /\ train_pc' = "TypeError"
                                   /\ UNCHANGED gen_vars
    /\ UNCHANGED print_callback_flag
    /\ UNCHANGED <<sv_vars, tg_vars, prompt_vars>>

TrainInit ==
    /\ train_pc = "idle"
    /\ print_callback_flag = TRUE
    /\ epoch = 0
    /\ epoch_end_calls = 0
    /\ epoch_sentence = None
    /\ saved_epochs = {}

SamplerInit ==
    /\ variant = "none"
    /\ labels = <<>>
    /\ desired_size = 0
    /\ digit_a_idx = <<>>
    /\ digit_b_idx = <<>>
    /\ data = EmptyData
    /\ sv_status = "idle"

(***************************************************************************)
(* Specifications.                                                         *)
(***************************************************************************)
SamplerNext == GetImgPairsBalanced \/ GetImgPairsUnbalanced

\* nothing has been constructed or called
Init == SamplerInit /\ TextInit /\ TrainInit /\ GenInit /\ PromptInit

\* a TextGeneration object has been constructed on GenCorpus
InitBuilt == SamplerInit /\ BuiltInit /\ TrainInit /\ GenInit /\ PromptInit

SpecSampler == Init /\ [][SamplerNext]_vars

WindowerNext == Construct

SpecWindower == Init /\ [][WindowerNext]_vars

GenerateNext == GenerateText \/ GenStep \/ GenEndRun

SpecGenerate == InitBuilt /\ [][GenerateNext]_vars

VocabularyNext == Construct \/ GenerateCharIndex

SpecVocabulary == Init /\ [][VocabularyNext]_vars

TrainNext == TrainModel \/ EpochEnd

SpecTrain == InitBuilt /\ [][TrainNext]_vars

PromptNext == PromptCall \/ PromptReadSeed \/ PromptReadCount \/ GenStep \/ GenEndRun

SpecPrompt == InitBuilt /\ [][PromptNext]_vars

(***************************************************************************)
(* Properties of the pair samplers.                                        *)
(***************************************************************************)
PoolDrawn == sv_status \in {"returned", "IndexError"}

\* the positions of the oversampled pool whose two source labels are equal
PoolMatches ==
    { i \in 1..Len(digit_a_idx) :
        labels[digit_a_idx[i] + 1] = labels[digit_b_idx[i] + 1] }

PoolMisses == (1..Len(digit_a_idx)) \ PoolMatches

Count(s, v) == Cardinality({ i \in 1..Len(s) : s[i] = v })

\* every returned pair's label is 1 iff the source labels of its images are equal
LabelsConsistent ==
    /\ Len(data.digit_a) = Len(data.labels)
    /\ Len(data.digit_b) = Len(data.labels)
    /\ \A i \in 1..Len(data.labels) :
          data.labels[i] =
             (IF labels[data.digit_a[i] + 1] = labels[data.digit_b[i] + 1] THEN 1 ELSE 0)

BalancedCase ==
    /\ variant = "mnist"
    /\ PoolDrawn
    /\ desired_size % 2 = 0
    /\ 2 * Cardinality(PoolMatches) >= desired_size
    /\ 2 * Cardinality(PoolMisses) >= desired_size

\* C1: the balanced sampler, called with an even desired_size D on a pool of
\* 10*D pairs holding at least D/2 matching and D/2 non-matching pairs,
\* returns exactly D pairs, D/2 of them labelled 1 (source labels equal) and
\* D/2 labelled 0 (source labels differ).
C1_BalancedHalves ==
    BalancedCase =>
        /\ sv_status = "returned"
        /\ Len(digit_a_idx) = OVERSAMPLE * desired_size
        /\ Len(data.labels) = desired_size
        /\ 2 * Count(data.labels, 1) = desired_size
        /\ 2 * Count(data.labels, 0) = desired_size
        /\ LabelsConsistent

C1_Witness ==
    /\ BalancedCase
    /\ desired_size = 4
    /\ sv_status = "returned"
    /\ Len(data.labels) = 4
    /\ Cardinality(PoolMatches) > 2
    /\ Cardinality(PoolMisses) >= 2

ShortPartition ==
    /\ variant = "mnist"
    /\ PoolDrawn
    /\ \/ 2 * Cardinality(PoolMatches) < desired_size
       \/ 2 * Cardinality(PoolMisses) < desired_size

\* C2: when the pool holds fewer than D/2 matching pairs or fewer than D/2
\* non-matching pairs, the balanced sampler still returns normally, with a
\* pair set smaller than D.
C2_ShortPartitionReturns ==
    ShortPartition =>
        /\ sv_status = "returned"
        /\ Len(data.labels) < desired_size

\* C3: for a source collection of N images the values that can be drawn for
\* the left and the right index are exactly 0..N-1: every draw lies in the
\* range and every index of the range, N-1 included, can be drawn.
C3_IndexRange ==
    sv_status # "idle" =>
        /\ \A i \in 1..Len(digit_a_idx) : digit_a_idx[i] \in 0..(Len(labels) - 1)
        /\ \A i \in 1..Len(digit_b_idx) : digit_b_idx[i] \in 0..(Len(labels) - 1)
        /\ ChoiceRange(ChoiceArg(Len(labels))) = 0..(Len(labels) - 1)

\* C4: the unbalanced sampler on N >= 1 images returns exactly as many pairs
\* as were asked for, each labelled 1 iff the source labels of its two images
\* are equal.
C4_UnbalancedSize ==
    (variant = "keras" /\ sv_status # "idle") =>
        /\ sv_status = "returned"
        /\ Len(data.labels) = desired_size
        /\ LabelsConsistent

(***************************************************************************)
(* Properties of the sequence windower.                                    *)
(***************************************************************************)
WindowerCase == tg_status = "built" /\ sentence_char_len < Len(text)

\* window number k (0-based) is text[k*step : k*step+L] with target text[k*step+L]
WindowsAsStated ==
    \A k \in 0..(Len(loop_log) - 1) :
        /\ loop_log[k + 1].sentence_string =
              SubSeq(text, k * step + 1, k * step + sentence_char_len)
        /\ loop_log[k + 1].next_char_string = <<text[k * step + sentence_char_len + 1]>>
        /\ sentences[k + 1] =
              vectorize_chars(SubSeq(text, k * step + 1, k * step + sentence_char_len),
                              char_indices_dict, num_chars)
        /\ next_chars[k + 1] =
              vectorize_chars(<<text[k * step + sentence_char_len + 1]>>,
                              char_indices_dict, num_chars)[1]

\* C5 as stated: for L < T exactly floor((T-L)/step) windows are produced,
\* window k being text[k*step : k*step+L] with target text[k*step+L].
C5_FloorWindows ==
    WindowerCase =>
        /\ Len(loop_log) = (Len(text) - sentence_char_len) \div step
        /\ WindowsAsStated

\* C5 amended: for L < T exactly ceil((T-L)/step) windows are produced,
\* window k being text[k*step : k*step+L] with target text[k*step+L].
C5_CeilWindows ==
    WindowerCase =>
        /\ Len(loop_log) = ((Len(text) - sentence_char_len) + step - 1) \div step
        /\ WindowsAsStated

C5_Witness ==
    /\ WindowerCase
    /\ (Len(text) - sentence_char_len) % step # 0
    /\ Len(loop_log) = 2
    /\ step = 2

(***************************************************************************)
(* Properties of generate_text.                                            *)
(***************************************************************************)
\* the seed as the caller gave it (the default when none was given)
ArgSeed == IF call_seed = None THEN DefaultSeed ELSE call_seed[1]

Finished == gen_pc \in {"returned", "KeyError", "IndexError"}

\* the lines of generated text written so far, one per diversity run
TextLines == SelectSeq(out, LAMBDA l : l.kind = "text")

\* C6: for a seed of at least L characters and M >= 0, every generation run
\* produces a text of len(seed) + M characters whose first len(seed)
\* characters are the seed as the caller gave it (with M = 0, the seed itself).
C6_SeedThenGenerated ==
    (Finished /\ Len(ArgSeed) >= sentence_char_len) =>
        /\ gen_pc = "returned"
        /\ Len(TextLines) = NUM_DIVERSITIES
        /\ \A k \in 1..Len(TextLines) :
              /\ Len(TextLines[k].body) = Len(ArgSeed) + num_char_to_generate
              /\ SubSeq(TextLines[k].body, 1, Len(ArgSeed)) = ArgSeed

\* the characters sampled so far in the current run
SampledSoFar == SubSeq(generated, Len(generated) - gen_i + 1, Len(generated))

\* C7: for every configured L and every seed of at least L characters, the
\* rolling window starts as the last L characters of the seed, holds exactly
\* L characters before and after every step, each step dropping the oldest
\* character and appending the sampled one, and a run ends after M steps.
\* (The seed is taken lower-cased, as generate_text normalises it.)
C7_RollingWindow ==
    (gen_pc # "idle" /\ Len(ArgSeed) >= sentence_char_len) =>
        /\ gen_pc \in {"loop", "returned"}
        /\ Len(sentence) = sentence_char_len
        /\ sentence = LastChars(Lower(ArgSeed) \o SampledSoFar, sentence_char_len)
        /\ gen_i <= num_char_to_generate
        /\ gen_pc = "returned" => predict_calls = NUM_DIVERSITIES * num_char_to_generate

\* C8: a call with a seed shorter than L characters fails with an
\* InvalidArgument error the caller sees, makes no model prediction and
\* writes no generated text.
C8_ShortSeedFails ==
    (gen_pc # "idle" /\ Len(ArgSeed) < sentence_char_len) =>
        /\ gen_pc = "InvalidArgument"
        /\ predict_calls = 0
        /\ TextLines = <<>>

(***************************************************************************)
(* Properties of prompt.                                                   *)
(***************************************************************************)
\* C9: prompt calls generate_text only with a seed of at least L characters
\* and a positive count (0 and negative counts are asked again), and 'exit'
\* at either question ends the session.
C9_PromptPrecondition ==
    /\ gen_calls > 0 =>
          /\ Len(ArgSeed) >= sentence_char_len
          /\ num_char_to_generate > 0
    /\ last_input = Some(EXIT) => (prompt_pc = "exited" /\ gen_pc \in {"idle", "returned"})

\* a line that is neither 'exit' nor an integer is read at the count question
ReadsInvalidCount ==
    /\ prompt_pc = "ask_count"
    /\ inputs_read' = inputs_read + 1
    /\ last_input' # Some(EXIT)
    /\ ~ParsesAsInt(last_input'[1])

\* the prompt leaves the count question or a generation for the seed question
BackToSeed ==
    /\ prompt_pc \in {"ask_count", "in_generate"}
    /\ prompt_pc' = "ask_seed"

\* C10: a count line that is no integer neither ends prompt nor starts a
\* generation: the count is asked again with the accepted seed kept, and the
\* seed question comes back only after a generation for that seed has run
\* all its diversity runs.
C10_RepromptsCount ==
    [][ /\ ReadsInvalidCount =>
              /\ prompt_pc' = "ask_count"
              /\ prompt_raw_seed' = prompt_raw_seed
              /\ prompt_raw_seed' # None
              /\ UNCHANGED gen_vars
        /\ BackToSeed =>
              /\ prompt_pc = "in_generate"
              /\ gen_pc' = "returned"
              /\ call_seed = prompt_raw_seed
              /\ Len(TextLines') = NUM_DIVERSITIES ]_vars

C10_Witness ==
    /\ prompt_pc = "ask_count"
    /\ prompt_raw_seed # None
    /\ last_input # None
    /\ last_input # Some(EXIT)
    /\ Len(last_input[1]) < SEED_LEN
    /\ ~ParsesAsInt(last_input[1])
    /\ inputs_read >= 2

(***************************************************************************)
(* Properties of the character vocabulary.                                 *)
(***************************************************************************)
\* char -> index and index -> char are inverse bijections between the distinct
\* characters of the corpus and 0..num_chars-1
VocabularyBijective ==
    /\ DOMAIN char_indices_dict = SeqRange(text)
    /\ num_chars = Cardinality(SeqRange(text))
    /\ DOMAIN indices_char_dict = 0..(num_chars - 1)
    /\ \A c \in DOMAIN char_indices_dict :
          /\ char_indices_dict[c] \in 0..(num_chars - 1)
          /\ indices_char_dict[char_indices_dict[c]] = c
    /\ \A k \in DOMAIN indices_char_dict :
          /\ indices_char_dict[k] \in SeqRange(text)
          /\ char_indices_dict[indices_char_dict[k]] = k

\* indices follow the code-point order of the characters
VocabularySorted ==
    \A j, k \in DOMAIN indices_char_dict :
        j < k => Ord(indices_char_dict[j]) < Ord(indices_char_dict[k])

\* C11: after every run of _generate_char_index the two mappings are inverse
\* bijections between the distinct corpus characters and 0..num_chars-1, the
\* indices are in sorted character order, and a further run on the same
\* corpus leaves both mappings as they were.
C11_Vocabulary ==
    [][ tg_status' = "built" =>
          /\ VocabularyBijective'
          /\ VocabularySorted'
          /\ tg_status = "built" =>
                /\ char_indices_dict' = char_indices_dict
                /\ indices_char_dict' = indices_char_dict
                /\ num_chars' = num_chars ]_vars

C11_Witness ==
    /\ tg_status = "built"
    /\ char_index_builds = 2
    /\ num_chars = 2
    /\ char_indices_dict["a"] = 0
    /\ indices_char_dict[1] = "b"

(***************************************************************************)
(* Properties of train_model.                                              *)
(***************************************************************************)
\* s occurs in the corpus as a run of consecutive characters
ContiguousInText(s) ==
    \E a \in 0..(Len(text) - Len(s)) : SubSeq(text, a + 1, a + Len(s)) = s

\* C12: with the print callback, every epoch end calls generate_text
\* successfully with a contiguous L-character piece of the corpus, and
\* control returns so that training goes on with the next epoch (the model
\* being saved after the epochs divisible by 5).
C12_EpochEndGenerates ==
    (print_callback_flag /\ epoch_end_calls > 0) =>
        /\ train_pc \in {"fitting", "returned"}
        /\ gen_calls = epoch_end_calls
        /\ epoch = epoch_end_calls
        /\ epoch_sentence # None
        /\ Len(epoch_sentence[1]) = sentence_char_len
        /\ ContiguousInText(epoch_sentence[1])
        /\ saved_epochs = { e \in 0..(epoch - 1) : e % SAVE_EVERY = 0 }

(***************************************************************************)
(* Properties of the training arrays.                                      *)
(***************************************************************************)
\* the entries set in a one-hot row
SetEntries(row) == { j \in DOMAIN row : row[j] }

\* m is the encoding of some L-character window of the corpus
EncodesWindow(m) ==
    \E a \in 0..(Len(text) - sentence_char_len) :
        m = vectorize_chars(SubSeq(text, a + 1, a + sentence_char_len),
                            char_indices_dict, num_chars)

\* C13: for L < T the rows allocated for sentences and next_chars equal the
\* windows the loop writes: every row of sentences encodes an L-character
\* window, every row of next_chars has exactly one set entry, no row is left
\* all-zero and no write falls outside the arrays.
C13_ArraysFullyPopulated ==
    WindowerCase =>
        /\ Len(sentences) = Len(loop_log)
        /\ Len(next_chars) = Len(loop_log)
        /\ \A k \in DOMAIN loop_log : loop_log[k].row < Len(sentences)
        /\ \A r \in DOMAIN sentences : EncodesWindow(sentences[r])
        /\ \A r \in DOMAIN next_chars : Cardinality(SetEntries(next_chars[r])) = 1

====
